---- MODULE Spec2Model ----
(***************************************************************************)
(* A model of the CODEX pipeline front door:                               *)
(*   python/pipeline/codex/cli/processor.py  (Processor.localhost and the  *)
(*                                            index resolver)              *)
(*   python/pipeline/codex/config.py         (CodexConfigV1 loading,       *)
(*                                            validation and accessors)    *)
(* Python values are modelled as tagged records, Python exceptions as      *)
(* results of kind "err" carrying the exception class.                     *)
(***************************************************************************)
EXTENDS Integers, Sequences, FiniteSets, TLC

VARIABLES
    arg,            \* resolve_int_list_arg: the argument of the call
    res,            \* resolve_int_list_arg: its outcome ("none" before the call)
    lh,             \* Processor.localhost: its arguments / local variables
    pc,             \* Processor.localhost: position in the method body
    events,         \* Processor.localhost: calls made on external collaborators, in order
    pipeline_conf,  \* Processor.localhost: what was handed to pipeline.PipelineConfig
    fs,             \* the files of data_dir read by CodexConfigV1.load
    overrides,      \* the overrides argument of CodexConfigV1.load
    loaded,         \* outcome of CodexConfigV1.load ("none" before the call)
    out             \* outcome of the last accessor called on the loaded config

vars == <<arg, res, lh, pc, events, pipeline_conf, fs, overrides, loaded, out>>

(***************************************************************************)
(* Bounds of the model.                                                    *)
(***************************************************************************)
MaxInt == 4        \* integers of index specifications range over -1..MaxInt
MaxStrLen == 2     \* longest text argument
MaxSeqLen == 3     \* longest tuple / list argument
MaxDim == 2        \* region_width and region_height range over 0..MaxDim
MaxRegs == 3       \* longest regIdx list of a valid config
MaxBadRegs == 2    \* longest regIdx list when entries may be invalid
MaxCycles == 3     \* num_cycles ranges over 0..MaxCycles
MaxChannels == 3   \* channels per cycle range over 0..MaxChannels
MaxNames == 6      \* longest channel names file

(***************************************************************************)
(* Python values.                                                          *)
(***************************************************************************)
PyNone == [tag |-> "none", n |-> 0, s |-> << >>, items |-> << >>]
PyInt(i) == [tag |-> "int", n |-> i, s |-> << >>, items |-> << >>]
\* a float that is no integer: PyFloat(i) stands for i + 0.5
PyFloat(i) == [tag |-> "float", n |-> i, s |-> << >>, items |-> << >>]
PyStr(chars) == [tag |-> "str", n |-> 0, s |-> chars, items |-> << >>]
PyTuple(xs) == [tag |-> "tuple", n |-> 0, s |-> << >>, items |-> xs]
PyList(xs) == [tag |-> "list", n |-> 0, s |-> << >>, items |-> xs]
\* a mapping, by the sequence of its keys
PyDict(ks) == [tag |-> "dict", n |-> 0, s |-> << >>, items |-> ks]

Ok(v) == [kind |-> "ok", err |-> "", val |-> v]
Err(e) == [kind |-> "err", err |-> e, val |-> PyNone]
NotCalled == [kind |-> "none", err |-> "", val |-> PyNone]

SeqsUpTo(S, k) == UNION {[1..m -> S] : m \in 0..k}

(***************************************************************************)
(* Python builtins used by resolve_int_list_arg and localhost.             *)
(***************************************************************************)
Whitespace == {" "}
DigitChars == {"0", "1", "7"}
DigitVal(c) == CASE c = "0" -> 0 [] c = "1" -> 1 [] c = "7" -> 7

RECURSIVE LStrip(_)
LStrip(s) == IF s # << >> /\ Head(s) \in Whitespace THEN LStrip(Tail(s)) ELSE s

RECURSIVE RStrip(_)
RStrip(s) ==
    IF s # << >> /\ s[Len(s)] \in Whitespace THEN RStrip(SubSeq(s, 1, Len(s) - 1)) ELSE s

\* digits accumulated left to right
RECURSIVE Accumulate(_, _)
Accumulate(acc, ds) ==
    IF ds = << >> THEN acc ELSE Accumulate(acc * 10 + DigitVal(Head(ds)), Tail(ds))

\* int(text): surrounding whitespace is dropped, one sign is allowed, then
\* one or more digits; anything else is a ValueError
py_int(s) ==
    LET t == RStrip(LStrip(s))
        signed == t # << >> /\ Head(t) \in {"-", "+"}
        ds == IF signed THEN Tail(t) ELSE t
    IN  IF ds = << >> \/ \E i \in 1..Len(ds) : ds[i] \notin DigitChars
        THEN Err("ValueError")
        ELSE Ok(PyInt(IF Head(t) = "-" THEN 0 - Accumulate(0, ds) ELSE Accumulate(0, ds)))

\* list(range(a, b))
RECURSIVE RangeList(_, _)
RangeList(a, b) == IF a >= b THEN << >> ELSE <<PyInt(a)>> \o RangeList(a + 1, b)

\* list(range(t[0], t[1])) on the items of a tuple
py_range(xs) ==
    IF Len(xs) < 2 THEN Err("IndexError")
    ELSE IF xs[1].tag # "int" \/ xs[2].tag # "int" THEN Err("TypeError")
    ELSE Ok(PyList(RangeList(xs[1].n, xs[2].n)))

\* len(v)
py_len(v) ==
    IF v.tag \in {"list", "tuple", "dict"} THEN Ok(PyInt(Len(v.items)))
    ELSE IF v.tag = "str" THEN Ok(PyInt(Len(v.s)))
    ELSE Err("TypeError")

(***************************************************************************)
(* processor.py: resolve_int_list_arg                                      *)
(***************************************************************************)
\* variant: a tuple is taken as the list of its items, not as a range
resolve_int_list_arg_tuple_as_list(a) ==
    IF a.tag = "none" THEN Ok(PyNone)
    ELSE IF a.tag = "int" THEN Ok(PyList(<<a>>))
    ELSE IF a.tag = "str"
         THEN LET r == py_int(a.s)
              IN  IF r.kind = "err" THEN r ELSE Ok(PyList(<<r.val>>))
    ELSE IF a.tag = "tuple" THEN Ok(PyList(a.items))
    ELSE Ok(a)

resolve_int_list_arg(a) ==
    IF a.tag = "none" THEN Ok(PyNone)
    ELSE IF a.tag = "int" THEN Ok(PyList(<<a>>))
    ELSE IF a.tag = "str"
         THEN LET r == py_int(a.s)
              IN  IF r.kind = "err" THEN r ELSE Ok(PyList(<<r.val>>))
    ELSE IF a.tag = "tuple" THEN py_range(a.items)
    ELSE Ok(a)

(***************************************************************************)
(* processor.py: Processor.localhost                                       *)
(* cli.record_execution, pipeline.PipelineConfig, pipeline.run and         *)
(* cli.record_processor_data are external: each either returns or raises.  *)
(***************************************************************************)
NoPipelineConf ==
    [built |-> FALSE, region_indexes |-> PyNone, tile_indexes |-> PyNone,
     n_workers |-> PyNone, gpus |-> PyNone]

\* lines 80-84: logging_init_fn is defined and called
LoggingInit ==
    /\ pc = "start"
    /\ events' = Append(events, "logging_init")
    /\ pc' = "record_execution"
    /\ UNCHANGED <<arg, res, lh, pipeline_conf, fs, overrides, loaded, out>>

\* lines 86-88: the arguments and environment are recorded when record_execution
RecordExecution ==
    /\ pc = "record_execution"
    /\ IF lh.record_execution
       THEN \E ok \in BOOLEAN :
               IF ok
               THEN events' = Append(events, "record_execution") /\ pc' = "resolve"
               ELSE events' = events /\ pc' = "failed"
       ELSE events' = events /\ pc' = "resolve"
    /\ UNCHANGED <<arg, res, lh, pipeline_conf, fs, overrides, loaded, out>>

\* variant: no worker without a gpu list
default_n_workers_zero_without_gpus(g) ==
    IF g.tag # "none" THEN py_len(g) ELSE Ok(PyInt(0))

\* line 100: n_workers = len(gpus) if gpus is not None else 1
default_n_workers(g) == IF g.tag # "none" THEN py_len(g) ELSE Ok(PyInt(1))

\* lines 90-100: the three index arguments are resolved in order, then the
\* dynamic default of n_workers is set; the first exception ends the method
ResolveArgs ==
    /\ pc = "resolve"
    /\ LET r == resolve_int_list_arg(lh.region_indexes)
           t == resolve_int_list_arg(lh.tile_indexes)
           g == resolve_int_list_arg(lh.gpus)
           w == IF lh.n_workers.tag = "none" THEN default_n_workers(g.val)
                ELSE Ok(lh.n_workers)
       IN  IF r.kind = "err" \/ t.kind = "err" \/ g.kind = "err" \/ w.kind = "err"
           THEN pc' = "failed" /\ lh' = lh
           ELSE /\ pc' = "run"
                /\ lh' = [lh EXCEPT !.region_indexes = r.val, !.tile_indexes = t.val,
                                    !.gpus = g.val, !.n_workers = w.val]
    /\ UNCHANGED <<arg, res, events, pipeline_conf, fs, overrides, loaded, out>>

\* lines 102-116: the pipeline configuration is built and the pipeline run
RunPipeline ==
    /\ pc = "run"
    /\ \E outcome \in {"config_error", "run_error", "ok"} :
          IF outcome = "config_error"
          THEN pc' = "failed" /\ events' = events /\ pipeline_conf' = pipeline_conf
          ELSE /\ pipeline_conf' =
                     [built |-> TRUE, region_indexes |-> lh.region_indexes,
                      tile_indexes |-> lh.tile_indexes, n_workers |-> lh.n_workers,
                      gpus |-> lh.gpus]
               /\ IF outcome = "run_error"
                  THEN /\ events' = events \o <<"pipeline_start", "pipeline_failed">>
                       /\ pc' = "failed"
                  ELSE /\ events' = events \o <<"pipeline_start", "pipeline_done">>
                       /\ pc' = "record_data"
    /\ UNCHANGED <<arg, res, lh, fs, overrides, loaded, out>>

\* variant: the operation summaries are written before the pipeline runs
RecordDataBeforeRun ==
    /\ pc = "run"
    /\ lh.record_data
    /\ "record_data" \notin {events[i] : i \in 1..Len(events)}
    /\ events' = Append(events, "record_data")
    /\ pc' = pc
    /\ UNCHANGED <<arg, res, lh, pipeline_conf, fs, overrides, loaded, out>>

\* lines 118-120: the operation summaries are recorded when record_data
RecordData ==
    /\ pc = "record_data"
    /\ IF lh.record_data
       THEN \E ok \in BOOLEAN :
               IF ok
               THEN events' = Append(events, "record_data") /\ pc' = "done"
               ELSE events' = events /\ pc' = "failed"
       ELSE events' = events /\ pc' = "done"
    /\ UNCHANGED <<arg, res, lh, pipeline_conf, fs, overrides, loaded, out>>

(***************************************************************************)
(* The call of resolve_int_list_arg on one argument.                       *)
(***************************************************************************)
Resolve ==
    /\ pc = "call"
    /\ res' = resolve_int_list_arg(arg)
    /\ pc' = "returned"
    /\ UNCHANGED <<arg, lh, events, pipeline_conf, fs, overrides, loaded, out>>

(***************************************************************************)
(* config.py: the configuration files and their merge                      *)
(* A mapping is a function from its keys; a file is present or absent.     *)
(***************************************************************************)
EmptyMap == [k \in {} |-> 0]

\* variant: a key already defined keeps its value
UpdateKeepingFirst(a, b) ==
    [k \in DOMAIN a \cup DOMAIN b |-> IF k \in DOMAIN a THEN a[k] ELSE b[k]]

\* dict.update: the keys of b overwrite those of a
Update(a, b) ==
    [k \in DOMAIN a \cup DOMAIN b |-> IF k \in DOMAIN b THEN b[k] ELSE a[k]]

NoDefault == [given |-> FALSE, data |-> EmptyMap]
DefaultEmpty == [given |-> TRUE, data |-> EmptyMap]

_load_json_config(f, default) ==
    IF ~f.present
    THEN IF ~default.given THEN Err("ValueError:missing_file") ELSE Ok(default.data)
    ELSE Ok(f.data)

_load_experiment_config(files) == _load_json_config(files.exp, NoDefault)

_load_processing_options(files) == _load_json_config(files.opts, DefaultEmpty)

RECURSIVE StripNonBlank(_)
StripNonBlank(ls) ==
    IF ls = << >> THEN << >>
    ELSE LET l == RStrip(LStrip(Head(ls)))
         IN  (IF l # << >> THEN <<l>> ELSE << >>) \o StripNonBlank(Tail(ls))

_load_channel_names(files) ==
    IF ~files.names.present THEN Err("ValueError:missing_file")
    ELSE Ok(StripNonBlank(files.names.lines))

(***************************************************************************)
(* config.py: Config and CodexConfigV1 accessors (c is the _conf mapping)  *)
(***************************************************************************)
channel_names(c) == c["all_channel_names"]
n_cycles(c) == c["num_cycles"]
n_channels_per_cycle(c) == Len(c["channel_names"])
region_width(c) == c["region_width"]
region_height(c) == c["region_height"]
tiling_mode(c) == c["tiling_mode"]
n_tiles_per_region(c) == region_width(c) * region_height(c)
region_indexes(c) == [i \in 1..Len(c["regIdx"].items) |-> c["regIdx"].items[i].n - 1]
_n_actual_channels(c) == Len(channel_names(c))
_n_expected_channels(c) == n_cycles(c) * n_channels_per_cycle(c)

(***************************************************************************)
(* config.py: CodexConfigV1._validate                                      *)
(***************************************************************************)
OneBasedKeys ==
    <<"driftCompReferenceCycle", "drift_comp_channel",
      "bestFocusReferenceCycle", "best_focus_channel">>

\* variant: 0 passes as a 1-based index
validate_one_based_index_nonnegative(c, k, v0) ==
    LET v == IF v0.tag = "none" THEN c[k] ELSE v0
    IN  IF v.tag \notin {"int", "float"} THEN "TypeError"
        ELSE IF v.tag = "float" \/ v.n < 0 THEN "ValueError:one_based_index"
        ELSE ""

\* the check of one value; "" when it passes, else the exception
validate_one_based_index(c, k, v0) ==
    LET v == IF v0.tag = "none" THEN c[k] ELSE v0
    IN  IF v.tag \notin {"int", "float"} THEN "TypeError"
        ELSE IF v.tag = "float" \/ v.n <= 0 THEN "ValueError:one_based_index"
        ELSE ""

\* the first exception among a sequence of checks, "" when all pass
RECURSIVE FirstError(_)
FirstError(es) ==
    IF es = << >> THEN "" ELSE IF Head(es) # "" THEN Head(es) ELSE FirstError(Tail(es))

_validate(c) ==
    IF {"all_channel_names", "num_cycles", "channel_names"} \ DOMAIN c # {}
    THEN Err("KeyError")
    ELSE IF _n_actual_channels(c) # _n_expected_channels(c)
    THEN Err("ValueError:channel_count")
    ELSE LET keyed == [i \in 1..Len(OneBasedKeys) |->
                         IF OneBasedKeys[i] \notin DOMAIN c THEN "KeyError"
                         ELSE validate_one_based_index(c, OneBasedKeys[i], PyNone)]
             regs == IF "regIdx" \notin DOMAIN c THEN <<"KeyError">>
                     ELSE [i \in 1..Len(c["regIdx"].items) |->
                             validate_one_based_index(c, "regIdx", c["regIdx"].items[i])]
             e == FirstError(keyed \o regs)
         IN  IF e # "" THEN Err(e) ELSE Ok(c)

(***************************************************************************)
(* config.py: CodexConfigV1.load                                           *)
(***************************************************************************)
load(files, ov) ==
    LET e == _load_experiment_config(files)
        o == _load_processing_options(files)
        n == _load_channel_names(files)
    IN  IF e.kind = "err" THEN e
        ELSE IF n.kind = "err" THEN n
        ELSE LET merged == Update(Update(e.val, o.val), [k \in {"all_channel_names"} |-> n.val])
                 conf == IF ov.given /\ DOMAIN ov.data # {} THEN Update(merged, ov.data)
                         ELSE merged
             IN  _validate(conf)

(***************************************************************************)
(* codex.tiling (not part of the sources at hand): the tiling strategies,  *)
(* after their description: "snake" is the one built-in strategy; it fills *)
(* row 0 left to right, row 1 right to left, alternating.                  *)
(***************************************************************************)
get_tiling_by_name(mode) ==
    IF mode = "snake" THEN Ok(mode) ELSE Err("UnsupportedModeError")

coordinates_from_index(tile_index, w, h) ==
    LET y == tile_index \div w
        x == tile_index % w
    IN  IF y % 2 = 0 THEN <<x, y>> ELSE <<w - 1 - x, y>>

(***************************************************************************)
(* config.py: Config.get_tile_coordinates, get_tile_indices,               *)
(* get_channel_coordinates                                                 *)
(***************************************************************************)
\* variant: the index n_tiles_per_region itself passes the range check
get_tile_coordinates_off_by_one(c, tile_index) ==
    IF tile_index > n_tiles_per_region(c) THEN Err("ValueError:tile_index")
    ELSE LET tiler == get_tiling_by_name(tiling_mode(c))
         IN  IF tiler.kind = "err" THEN tiler
             ELSE IF region_width(c) = 0 THEN Err("ZeroDivisionError")
             ELSE Ok(coordinates_from_index(tile_index, region_width(c), region_height(c)))

get_tile_coordinates(c, tile_index) ==
    IF tile_index >= n_tiles_per_region(c) THEN Err("ValueError:tile_index")
    ELSE LET tiler == get_tiling_by_name(tiling_mode(c))
         IN  IF tiler.kind = "err" THEN tiler
             ELSE Ok(coordinates_from_index(tile_index, region_width(c), region_height(c)))

TileIndices(ireg, itile, xy) ==
    [region_index |-> ireg, tile_index |-> itile, tile_x |-> xy[1], tile_y |-> xy[2]]

\* the inner loop, from itile on: indices is extended or the exception raised
RECURSIVE TileLoop(_, _, _, _)
TileLoop(c, ireg, itile, indices) ==
    IF indices.kind = "err" \/ itile >= n_tiles_per_region(c) THEN indices
    ELSE LET xy == get_tile_coordinates(c, itile)
         IN  IF xy.kind = "err" THEN xy
             ELSE TileLoop(c, ireg, itile + 1,
                           Ok(Append(indices.val, TileIndices(ireg, itile, xy.val))))

\* the outer loop over the region indexes left
RECURSIVE RegionLoop(_, _, _)
RegionLoop(c, regs, indices) ==
    IF indices.kind = "err" \/ regs = << >> THEN indices
    ELSE RegionLoop(c, Tail(regs), TileLoop(c, Head(regs), 0, indices))

\* variant: the tile loop starts at tile 1
RECURSIVE RegionLoopFromTileOne(_, _, _)
RegionLoopFromTileOne(c, regs, indices) ==
    IF indices.kind = "err" \/ regs = << >> THEN indices
    ELSE RegionLoopFromTileOne(c, Tail(regs), TileLoop(c, Head(regs), 1, indices))

get_tile_indices_from_tile_one(c) == RegionLoopFromTileOne(c, region_indexes(c), Ok(<< >>))

get_tile_indices(c) == RegionLoop(c, region_indexes(c), Ok(<< >>))

\* list.index: the 0-based position of the first occurrence (name is in names)
RECURSIVE IndexOf(_, _)
IndexOf(names, name) == IF Head(names) = name THEN 0 ELSE 1 + IndexOf(Tail(names), name)

\* variant: the position is divided by n_channels_per_cycle
get_channel_coordinates_by_channels(c, channel_name) ==
    IF \A i \in 1..Len(channel_names(c)) : channel_names(c)[i] # channel_name
    THEN Err("ValueError:channel_not_configured")
    ELSE LET i == IndexOf(channel_names(c), channel_name)
         IN  IF n_channels_per_cycle(c) = 0 THEN Err("ZeroDivisionError")
             ELSE Ok(<<i \div n_channels_per_cycle(c), i % n_channels_per_cycle(c)>>)

get_channel_coordinates(c, channel_name) ==
    IF \A i \in 1..Len(channel_names(c)) : channel_names(c)[i] # channel_name
    THEN Err("ValueError:channel_not_configured")
    ELSE LET i == IndexOf(channel_names(c), channel_name)
         IN  IF n_cycles(c) = 0 THEN Err("ZeroDivisionError")
             ELSE Ok(<<i \div n_cycles(c), i % n_cycles(c)>>)

(***************************************************************************)
(* The calls on the configuration model.                                   *)
(***************************************************************************)
NoOut == [op |-> "", t |-> 0, name |-> << >>, r |-> NotCalled]

NamePool == {<<"a">>, <<"b">>, <<"c">>}
QueryNames == NamePool \cup {<<"z">>}
QueryTiles == 0..(MaxDim * MaxDim + 1)

Load ==
    /\ pc = "load"
    /\ loaded' = load(fs, overrides)
    /\ pc' = "loaded"
    /\ UNCHANGED <<arg, res, lh, events, pipeline_conf, fs, overrides, out>>

GetTileIndices ==
    /\ pc = "loaded" /\ loaded.kind = "ok"
    /\ out' = [op |-> "get_tile_indices", t |-> 0, name |-> << >>,
               r |-> get_tile_indices(loaded.val)]
    /\ UNCHANGED <<arg, res, lh, pc, events, pipeline_conf, fs, overrides, loaded>>

GetTileCoordinates ==
    /\ pc = "loaded" /\ loaded.kind = "ok"
    /\ \E t \in QueryTiles :
          out' = [op |-> "get_tile_coordinates", t |-> t, name |-> << >>,
                  r |-> get_tile_coordinates(loaded.val, t)]
    /\ UNCHANGED <<arg, res, lh, pc, events, pipeline_conf, fs, overrides, loaded>>

GetChannelCoordinates ==
    /\ pc = "loaded" /\ loaded.kind = "ok"
    /\ \E name \in QueryNames :
          out' = [op |-> "get_channel_coordinates", t |-> 0, name |-> name,
                  r |-> get_channel_coordinates(loaded.val, name)]
    /\ UNCHANGED <<arg, res, lh, pc, events, pipeline_conf, fs, overrides, loaded>>

(***************************************************************************)
(* Initial states.  Each specification starts one entry point with its     *)
(* inputs drawn from bounded sets; the other entry points stay idle.       *)
(***************************************************************************)
IntVals == -1..MaxInt
Scalars == {PyInt(i) : i \in IntVals} \cup {PyFloat(1)}
Chars == {"-", "+", "0", "1", "7", " ", "x"}

\* the shapes of an index specification, and some that are none
Args ==
    {PyNone, PyFloat(2), PyDict(<< >>), PyDict(<<PyInt(1)>>)}
    \cup {PyInt(i) : i \in IntVals}
    \cup {PyStr(cs) : cs \in SeqsUpTo(Chars, MaxStrLen)}
    \cup {PyTuple(xs) : xs \in SeqsUpTo(Scalars, MaxSeqLen)}
    \cup {PyList(xs) : xs \in SeqsUpTo(Scalars, MaxSeqLen)}

LhIntVals == 0..(MaxInt - 1)
LhIndexArgs == {PyNone, PyInt(1), PyStr(<<"x">>)}
LhGpuArgs ==
    {PyNone, PyFloat(2), PyStr(<<"7">>), PyStr(<<"x">>), PyTuple(<<PyInt(1)>>)}
    \cup {PyInt(i) : i \in LhIntVals}
    \cup {PyTuple(<<PyInt(a), PyInt(b)>>) : a, b \in LhIntVals}
    \cup {PyList(xs) : xs \in SeqsUpTo({PyInt(i) : i \in LhIntVals}, 2)}
LhWorkerArgs == {PyNone, PyInt(0), PyInt(1), PyInt(3)}

NoArg == [tag |-> "unset", n |-> 0, s |-> << >>, items |-> << >>]
\* the frame of localhost: the arguments as passed (call) and the local
\* variables the method rebinds
Frame(r, t, g, w, re, rd) ==
    [call |-> [region_indexes |-> r, tile_indexes |-> t, gpus |-> g, n_workers |-> w],
     region_indexes |-> r, tile_indexes |-> t, gpus |-> g, n_workers |-> w,
     record_execution |-> re, record_data |-> rd]
NoLh == Frame(PyNone, PyNone, PyNone, PyNone, FALSE, FALSE)
Absent == [present |-> FALSE, data |-> EmptyMap]
AbsentText == [present |-> FALSE, lines |-> << >>]
NoFs == [exp |-> Absent, opts |-> Absent, names |-> AbsentText]
NoOverrides == [given |-> FALSE, data |-> EmptyMap]

ProcessorIdle ==
    /\ arg = NoArg /\ res = NotCalled
    /\ lh = NoLh /\ events = << >> /\ pipeline_conf = NoPipelineConf

ConfigIdle ==
    /\ fs = NoFs /\ overrides = NoOverrides /\ loaded = NotCalled /\ out = NoOut

\* Processor.localhost is called
Init ==
    /\ ConfigIdle
    /\ arg = NoArg /\ res = NotCalled
    /\ pc = "start"
    /\ events = << >>
    /\ pipeline_conf = NoPipelineConf
    /\ \E r \in LhIndexArgs, t \in LhIndexArgs, g \in LhGpuArgs, w \in LhWorkerArgs,
          re \in BOOLEAN, rd \in BOOLEAN :
          lh = Frame(r, t, g, w, re, rd)

Next == LoggingInit \/ RecordExecution \/ ResolveArgs \/ RunPipeline \/ RecordData

Spec == Init /\ [][Next]_vars

\* resolve_int_list_arg is called on one argument
InitResolve ==
    /\ ConfigIdle
    /\ lh = NoLh /\ events = << >> /\ pipeline_conf = NoPipelineConf
    /\ pc = "call"
    /\ res = NotCalled
    /\ arg \in Args

NextResolve == Resolve

SpecResolve == InitResolve /\ [][NextResolve]_vars

\* an Experiment.json with every key of the configuration
Experiment(nc, chs, idx, regs, rw, rh, mode) ==
    [k \in {"num_cycles", "channel_names", "regIdx", "region_width", "region_height",
            "tiling_mode"} \cup {OneBasedKeys[i] : i \in 1..Len(OneBasedKeys)} |->
        CASE k = "num_cycles" -> nc
          [] k = "channel_names" -> chs
          [] k = "regIdx" -> PyList(regs)
          [] k = "region_width" -> rw
          [] k = "region_height" -> rh
          [] k = "tiling_mode" -> mode
          [] k = "driftCompReferenceCycle" -> idx[1]
          [] k = "drift_comp_channel" -> idx[2]
          [] k = "bestFocusReferenceCycle" -> idx[3]
          [] k = "best_focus_channel" -> idx[4]]

Present(m) == [present |-> TRUE, data |-> m]
Text(ls) == [present |-> TRUE, lines |-> ls]
PerCycle == <<<<"ch1">>, <<"ch2">>, <<"ch3">>, <<"ch4">>, <<"ch5">>>>
AllLines == <<<<"a">>, <<"b">>, <<"c">>, <<"d">>>>
GoodIdx == <<PyInt(1), PyInt(1), PyInt(1), PyInt(1)>>

\* a layer that defines the keys whose set of values is not empty
Layer(ncs, rws, ans) ==
    [k \in (IF ncs = {} THEN {} ELSE {"num_cycles"})
           \cup (IF rws = {} THEN {} ELSE {"region_width"})
           \cup (IF ans = {} THEN {} ELSE {"all_channel_names"}) |->
        CASE k = "num_cycles" -> CHOOSE v \in ncs : TRUE
          [] k = "region_width" -> CHOOSE v \in rws : TRUE
          [] k = "all_channel_names" -> CHOOSE v \in ans : TRUE]

ProcessorIdleAt(p) == ProcessorIdle /\ pc = p /\ loaded = NotCalled /\ out = NoOut

\* load over layers that define overlapping keys, with files present or absent
InitLoad ==
    /\ ProcessorIdleAt("load")
    /\ \E e \in {Absent} \cup {Present(Experiment(nc, <<"ch1">>, GoodIdx, <<PyInt(1)>>,
                                                   1, 1, "snake")) : nc \in {1, 2}},
          o \in {Absent} \cup {Present(Layer(ncs, rws, ans)) :
                                  ncs \in {{}, {1}, {2}}, rws \in {{}, {2}},
                                  ans \in {{}, {<<<<"o">>>>}}},
          n \in {AbsentText, Text(<<<<"a">>>>), Text(<<<<"a">>, << >>, <<"b">>>>),
                 Text(<<<<" ", "a">>, <<" ">>>>)} :
          fs = [exp |-> e, opts |-> o, names |-> n]
    /\ overrides \in {NoOverrides} \cup
                     {[given |-> TRUE, data |-> Layer(ncs, rws, ans)] :
                         ncs \in {{}, {1}, {2}}, rws \in {{}, {0}},
                         ans \in {{}, {<<<<"v">>>>}, {<<<<"v">>, <<"w">>>>}}}

\* load over configurations whose channel count and 1-based indexes may be invalid
InitValidate ==
    /\ ProcessorIdleAt("load")
    /\ overrides = NoOverrides
    /\ \E nc \in 1..2, m \in 1..2,
          idx \in [1..4 -> {PyInt(0), PyInt(1), PyFloat(1)}],
          regs \in SeqsUpTo({PyInt(-1), PyInt(0), PyInt(1), PyInt(2), PyFloat(1),
                             PyStr(<<"x">>), PyNone}, MaxBadRegs) :
          fs = [exp |-> Present(Experiment(nc, SubSeq(PerCycle, 1, m), idx, regs,
                                           1, 1, "snake")),
                opts |-> Absent,
                names |-> Text(SubSeq(AllLines, 1, 2))]

\* load over valid configurations of every region grid and region list
InitGeometry ==
    /\ ProcessorIdleAt("load")
    /\ overrides = NoOverrides
    /\ \E rw \in 0..MaxDim, rh \in 0..MaxDim, mode \in {"snake", "grid"},
          regs \in SeqsUpTo({PyInt(1), PyInt(2), PyInt(3)}, MaxRegs) :
          fs = [exp |-> Present(Experiment(1, <<"ch1">>, GoodIdx, regs, rw, rh, mode)),
                opts |-> Absent,
                names |-> Text(<<<<"a">>>>)]

\* load over channel name lists of every length, with repeated names
InitChannels ==
    /\ ProcessorIdleAt("load")
    /\ overrides = NoOverrides
    /\ \E nc \in 0..MaxCycles, m \in 0..MaxChannels, ls \in SeqsUpTo(NamePool, MaxNames) :
          fs = [exp |-> Present(Experiment(nc, SubSeq(PerCycle, 1, m), GoodIdx,
                                           <<PyInt(1)>>, 1, 1, "snake")),
                opts |-> Absent,
                names |-> Text(ls)]

NextConfig == Load \/ GetTileIndices \/ GetTileCoordinates \/ GetChannelCoordinates

SpecLoad == InitLoad /\ [][NextConfig]_vars
SpecValidate == InitValidate /\ [][NextConfig]_vars
SpecGeometry == InitGeometry /\ [][NextConfig]_vars
SpecChannels == InitChannels /\ [][NextConfig]_vars

(***************************************************************************)
(* Properties of resolve_int_list_arg (SpecResolve).                       *)
(***************************************************************************)
AllInts(xs) == \A i \in 1..Len(xs) : xs[i].tag = "int"

\* [+-]?[0-9]+
IsIntLiteral(cs) ==
    /\ cs # << >>
    /\ LET ds == IF cs[1] \in {"-", "+"} THEN Tail(cs) ELSE cs
       IN  ds # << >> /\ \A i \in 1..Len(ds) : ds[i] \in {"0", "1", "7"}

RECURSIVE Pow10(_)
Pow10(k) == IF k = 0 THEN 1 ELSE 10 * Pow10(k - 1)

\* the digit at position i weighs 10^(number of digits after it)
RECURSIVE Positional(_, _)
Positional(ds, i) ==
    IF i > Len(ds) THEN 0
    ELSE (CASE ds[i] = "0" -> 0 [] ds[i] = "1" -> 1 [] ds[i] = "7" -> 7)
            * Pow10(Len(ds) - i) + Positional(ds, i + 1)

LiteralValue(cs) ==
    IF cs[1] = "-" THEN 0 - Positional(Tail(cs), 1)
    ELSE IF cs[1] = "+" THEN Positional(Tail(cs), 1)
    ELSE Positional(cs, 1)

\* C2: on the documented shapes resolve_int_list_arg returns: None for None;
\* [n] for an integer n; [value] for the text of an integer literal; for a
\* tuple starting (a, b, ...) the list a, a+1, ..., b-1, empty when b <= a,
\* whatever follows b; a list of integers itself, order and duplicates kept.
ResolveDocumentedShapes ==
    pc = "returned" =>
        /\ arg.tag = "none" => res.kind = "ok" /\ res.val = PyNone
        /\ arg.tag = "int" => res.kind = "ok" /\ res.val = PyList(<<PyInt(arg.n)>>)
        /\ (arg.tag = "str" /\ IsIntLiteral(arg.s)) =>
              res.kind = "ok" /\ res.val = PyList(<<PyInt(LiteralValue(arg.s))>>)
        /\ (arg.tag = "tuple" /\ Len(arg.items) >= 2 /\ AllInts(SubSeq(arg.items, 1, 2))) =>
              LET a == arg.items[1].n
                  b == arg.items[2].n
              IN  /\ res.kind = "ok" /\ res.val.tag = "list"
                  /\ Len(res.val.items) = (IF b <= a THEN 0 ELSE b - a)
                  /\ \A i \in 1..Len(res.val.items) : res.val.items[i] = PyInt(a + i - 1)
        /\ (arg.tag = "list" /\ AllInts(arg.items)) => res.kind = "ok" /\ res.val = arg

\* the pair (1, 4) followed by a third element resolved to [1, 2, 3]
ResolveRangeWitness ==
    /\ pc = "returned"
    /\ arg = PyTuple(<<PyInt(1), PyInt(4), PyFloat(1)>>)
    /\ res.kind = "ok"
    /\ res.val = PyList(<<PyInt(1), PyInt(2), PyInt(3)>>)

\* C3: an argument of no documented shape (a float, a mapping, a list with an
\* element that is no integer) makes resolve_int_list_arg fail with a
\* TypeError; it is never returned as the result.
ResolveRejectsOtherShapes ==
    (/\ pc = "returned"
     /\ \/ arg.tag \in {"float", "dict"}
        \/ arg.tag = "list" /\ ~AllInts(arg.items))
    => res.kind = "err" /\ res.err = "TypeError"

(***************************************************************************)
(* Properties of Processor.localhost (Spec).                               *)
(***************************************************************************)
\* the length of the list a gpus argument of a documented shape stands for
GpuCount(g) ==
    CASE g.tag \in {"int", "str"} -> 1
      [] g.tag = "tuple" ->
            IF g.items[2].n <= g.items[1].n THEN 0 ELSE g.items[2].n - g.items[1].n
      [] g.tag = "list" -> Len(g.items)

\* C4: the worker count handed to the pipeline is the n_workers argument when
\* one is given, else the length of the resolved gpu list when gpus is given,
\* else 1.
WorkerCountHandedOver ==
    pipeline_conf.built =>
        pipeline_conf.n_workers =
            IF lh.call.n_workers.tag # "none" THEN lh.call.n_workers
            ELSE IF lh.call.gpus.tag # "none" THEN PyInt(GpuCount(lh.call.gpus))
            ELSE PyInt(1)

\* gpus=[0,2] and no n_workers: the pipeline got 2 workers
WorkerCountWitness ==
    /\ pipeline_conf.built
    /\ lh.call.n_workers = PyNone
    /\ lh.call.gpus = PyList(<<PyInt(0), PyInt(2)>>)
    /\ pipeline_conf.n_workers = PyInt(2)

Positions(e) == {i \in 1..Len(events) : events[i] = e}

\* C9: the logging initializer runs first; the execution record is written
\* only with record_execution set, and then before the pipeline run starts;
\* the operation summaries are written only with record_data set and only
\* after the pipeline run has returned, never after a failed run.
EventOrder ==
    /\ events # << >> => events[1] = "logging_init"
    /\ Positions("record_execution") # {} => lh.record_execution
    /\ Positions("record_data") # {} => lh.record_data
    /\ \A i \in Positions("pipeline_start") :
          /\ \A j \in Positions("record_execution") : j < i
          /\ lh.record_execution => \E j \in Positions("record_execution") : j < i
    /\ \A i \in Positions("record_data") : \E j \in Positions("pipeline_done") : j < i
    /\ Positions("pipeline_failed") # {} => Positions("record_data") = {}

\* a complete run with both flags set
EventOrderWitness ==
    /\ pc = "done"
    /\ events = <<"logging_init", "record_execution", "pipeline_start", "pipeline_done",
                  "record_data">>

(***************************************************************************)
(* Properties of CodexConfigV1.load (SpecValidate, SpecLoad).              *)
(***************************************************************************)
PositiveInt(v) == v.tag = "int" /\ v.n > 0

\* C1: load raises or returns a config whose channel name count is
\* n_cycles * n_channels_per_cycle and whose 1-based indexes (the four
\* reference fields, every regIdx entry) are positive integers; a regIdx
\* entry of 0 or -1 makes it raise; regIdx = [1] in an otherwise valid
\* configuration is accepted and gives the region indexes [0].
LoadNeverPartiallyValid ==
    pc = "loaded" =>
        LET e == fs.exp.data
            regs == e["regIdx"].items
        IN  /\ loaded.kind \in {"ok", "err"}
            /\ loaded.kind = "ok" =>
                  /\ Len(channel_names(loaded.val)) =
                        n_cycles(loaded.val) * n_channels_per_cycle(loaded.val)
                  /\ \A i \in 1..Len(OneBasedKeys) : PositiveInt(loaded.val[OneBasedKeys[i]])
                  /\ \A i \in 1..Len(loaded.val["regIdx"].items) :
                        PositiveInt(loaded.val["regIdx"].items[i])
            /\ (\E i \in 1..Len(regs) : regs[i] \in {PyInt(0), PyInt(-1)}) =>
                  loaded.kind = "err"
            /\ (/\ regs = <<PyInt(1)>>
                /\ \A i \in 1..Len(OneBasedKeys) : e[OneBasedKeys[i]] = PyInt(1)
                /\ Len(StripNonBlank(fs.names.lines)) = e["num_cycles"] * Len(e["channel_names"]))
               => loaded.kind = "ok" /\ region_indexes(loaded.val) = <<0>>

\* regIdx = [1] was accepted and resolved to region index 0
LoadAcceptsRegionOne ==
    /\ pc = "loaded"
    /\ fs.exp.data["regIdx"].items = <<PyInt(1)>>
    /\ loaded.kind = "ok"
    /\ region_indexes(loaded.val) = <<0>>

\* the layers of load, earliest first, each with the keys it defines
LayerDefines(l, k) ==
    CASE l = "overrides" -> overrides.given /\ k \in DOMAIN overrides.data
      [] l = "names" -> k = "all_channel_names"
      [] l = "opts" -> fs.opts.present /\ k \in DOMAIN fs.opts.data
      [] l = "exp" -> k \in DOMAIN fs.exp.data

\* C8: the loaded mapping is the last-writer-wins merge of experiment
\* metadata, processing options, channel names and overrides: every key has
\* the value of the latest layer defining it; an absent processing options
\* file is an empty layer and raises nothing; an absent experiment or channel
\* names file makes load raise.
MergeLastWriterWins ==
    pc = "loaded" =>
        /\ (~fs.exp.present \/ ~fs.names.present) =>
              loaded.kind = "err" /\ loaded.err = "ValueError:missing_file"
        /\ loaded.err = "ValueError:missing_file" => ~fs.exp.present \/ ~fs.names.present
        /\ loaded.kind = "ok" =>
              /\ DOMAIN loaded.val =
                    {k \in DOMAIN fs.exp.data \cup DOMAIN fs.opts.data
                           \cup DOMAIN overrides.data \cup {"all_channel_names"} :
                        \E l \in {"exp", "opts", "names", "overrides"} : LayerDefines(l, k)}
              /\ \A k \in DOMAIN loaded.val :
                    loaded.val[k] =
                        IF LayerDefines("overrides", k) THEN overrides.data[k]
                        ELSE IF LayerDefines("names", k) THEN StripNonBlank(fs.names.lines)
                        ELSE IF LayerDefines("opts", k) THEN fs.opts.data[k]
                        ELSE fs.exp.data[k]

\* a load without processing options in which the overrides replaced the
\* experiment's num_cycles and the options' value was the one kept elsewhere
MergeWitness ==
    /\ pc = "loaded" /\ loaded.kind = "ok"
    /\ ~fs.opts.present
    /\ overrides.given /\ "num_cycles" \in DOMAIN overrides.data
    /\ loaded.val["num_cycles"] # fs.exp.data["num_cycles"]
    /\ loaded.val["region_width"] = fs.exp.data["region_width"]

(***************************************************************************)
(* Properties of the tile accessors (SpecGeometry).                        *)
(***************************************************************************)
\* the Work Units, by position: regions in configured order, the tiles of a
\* region in index order, each with the coordinates of its tile
RegionMajor(c, units) ==
    LET n == n_tiles_per_region(c)
    IN  \A i \in 1..Len(units) :
           LET t == (i - 1) % n
           IN  units[i] = TileIndices(region_indexes(c)[((i - 1) \div n) + 1], t,
                                      get_tile_coordinates(c, t).val)

UniquePairs(units) ==
    \A i, j \in 1..Len(units) :
       (units[i].region_index = units[j].region_index
        /\ units[i].tile_index = units[j].tile_index) => i = j

DistinctRegions(c) ==
    \A i, j \in 1..Len(region_indexes(c)) :
       region_indexes(c)[i] = region_indexes(c)[j] => i = j

SnakeBijection ==
    (pc = "loaded" /\ loaded.kind = "ok" /\ tiling_mode(loaded.val) = "snake") =>
        LET c == loaded.val
            n == n_tiles_per_region(c)
            xy(t) == get_tile_coordinates(c, t)
        IN  /\ \A t \in 0..(n - 1) :
                  /\ xy(t).kind = "ok"
                  /\ xy(t).val[1] \in 0..(region_width(c) - 1)
                  /\ xy(t).val[2] \in 0..(region_height(c) - 1)
            /\ \A t1, t2 \in 0..(n - 1) : xy(t1).val = xy(t2).val => t1 = t2
            /\ \A x \in 0..(region_width(c) - 1), y \in 0..(region_height(c) - 1) :
                  \E t \in 0..(n - 1) : xy(t).val = <<x, y>>
            /\ \A t \in QueryTiles : t >= n => xy(t).kind = "err"
            /\ (out.op = "get_tile_coordinates" /\ out.t >= n) =>
                  out.r.kind = "err" /\ out.r.err = "ValueError:tile_index"

\* tile 3 of a 2 x 2 region is at the left end of the second row
SnakeWitness ==
    /\ out.op = "get_tile_coordinates" /\ out.t = 3
    /\ region_width(loaded.val) = 2 /\ region_height(loaded.val) = 2
    /\ out.r.kind = "ok" /\ out.r.val = <<0, 1>>

(***************************************************************************)
(* Properties of get_channel_coordinates (SpecChannels).                   *)
(***************************************************************************)
Derived(c, p) == <<(p - 1) \div n_cycles(c), (p - 1) % n_cycles(c)>>

FirstOccurrence(names, p) == \A q \in 1..(p - 1) : names[q] # names[p]

UnknownNameRejected ==
    (out.op = "get_channel_coordinates"
     /\ \A p \in 1..Len(channel_names(loaded.val)) : channel_names(loaded.val)[p] # out.name)
    => out.r.kind = "err" /\ out.r.err = "ValueError:channel_not_configured"

\* C6 as stated: for every position p of the channel name list the
\* coordinates of the name at p are (p // n_cycles, p % n_cycles), p counted
\* from 0; a name not in the list gives a lookup error.
ChannelCoordinatesAtEveryPosition ==
    (pc = "loaded" /\ loaded.kind = "ok") =>
        /\ \A p \in 1..Len(channel_names(loaded.val)) :
              LET r == get_channel_coordinates(loaded.val, channel_names(loaded.val)[p])
              IN  r.kind = "ok" /\ r.val = Derived(loaded.val, p)
        /\ UnknownNameRejected

\* C6 (amended): the coordinates of a configured name are those derived from
\* the position of its first occurrence; a later occurrence of a repeated
\* name gets the coordinates of the first; a name not in the list gives a
\* lookup error.
ChannelCoordinatesAtFirstPosition ==
    (pc = "loaded" /\ loaded.kind = "ok") =>
        /\ \A p \in 1..Len(channel_names(loaded.val)) :
              LET names == channel_names(loaded.val)
                  r == get_channel_coordinates(loaded.val, names[p])
                  first == CHOOSE q \in 1..p : names[q] = names[p] /\ FirstOccurrence(names, q)
              IN  r.kind = "ok" /\ r.val = Derived(loaded.val, first)
        /\ (out.op = "get_channel_coordinates" /\ out.r.kind = "ok") =>
              \E p \in 1..Len(channel_names(loaded.val)) :
                 /\ channel_names(loaded.val)[p] = out.name
                 /\ FirstOccurrence(channel_names(loaded.val), p)
                 /\ out.r.val = Derived(loaded.val, p)
        /\ UnknownNameRejected

\* a name first met at a position past the first row of the derivation
ChannelCoordinatesWitness ==
    /\ out.op = "get_channel_coordinates" /\ out.r.kind = "ok"
    /\ out.r.val[1] > 0 /\ out.r.val[2] > 0
    /\ n_cycles(loaded.val) # n_channels_per_cycle(loaded.val)

\* C10: the (cycle, channel) pair returned for a configured name is a valid
\* coordinate: 0 <= cycle < n_cycles and 0 <= channel < n_channels_per_cycle.
ChannelCoordinatesInRange ==
    (out.op = "get_channel_coordinates" /\ out.r.kind = "ok") =>
        /\ out.r.val[1] \in 0..(n_cycles(loaded.val) - 1)
        /\ out.r.val[2] \in 0..(n_channels_per_cycle(loaded.val) - 1)

====
